---------------------------- MODULE Spec2Model ----------------------------
(***************************************************************************)
(* Model of the GIS chatbot backend: the layer store (database.py), the    *)
(* catalog builder (tokenize_name, generate_aliases, get_dataset_catalog), *)
(* the query validator (extract_user_intent) and the buffer analysis       *)
(* engine (gis_processor.py).                                              *)
(*                                                                         *)
(* Representation choices                                                  *)
(*  - A Python str is a sequence of one-character strings, so that         *)
(*    lower(), replace() and the regular expressions act on characters.    *)
(*  - A float is a fixed-point integer with FixedPoint units per 1.0.      *)
(*  - Geometry is one-dimensional (positions along a meridian): a feature  *)
(*    is a closed interval [lo, hi]; a point has lo = hi.                  *)
(*  - EPSG:4326 coordinates are integer "geographic units"; EPSG:3995      *)
(*    coordinates are metres from the pole.                                *)
(***************************************************************************)
EXTENDS Integers, Sequences, FiniteSets, TLC

VARIABLES
    fs,         \* source tree under DATA_DIR: file -> version of its content
    dbExists,   \* DB_PATH.exists()
    layers,     \* the tables of the SQLite store: set of [name, crs, feats]
    call        \* the most recent call and its outcome, or Idle

vars == <<fs, dbExists, layers, call>>

---------------------------------------------------------------------------
(* Bounds of the model *)

MaxEdits == 1       \* times the source files are re-exported, in all
MaxDistance == 2    \* largest distance a query asks for
MaxMidLen == 2      \* length of the free middle part of a tokenizer input

---------------------------------------------------------------------------
(* Python str helpers *)

Range(s) == { s[i] : i \in DOMAIN s }

LowerLetters ==
    << "a","b","c","d","e","f","g","h","i","j","k","l","m",
       "n","o","p","q","r","s","t","u","v","w","x","y","z" >>

UpperLetters ==
    << "A","B","C","D","E","F","G","H","I","J","K","L","M",
       "N","O","P","Q","R","S","T","U","V","W","X","Y","Z" >>

\* the character class [a-z]
IsAZ(c) == c \in Range(LowerLetters)

char_lower(c) ==
    IF c \in Range(UpperLetters)
    THEN LowerLetters[CHOOSE i \in DOMAIN UpperLetters : UpperLetters[i] = c]
    ELSE c

\* str.lower()
str_lower(s) == [ i \in DOMAIN s |-> char_lower(s[i]) ]

\* str.replace(old, new) for one-character old and new
str_replace(s, old, new) == [ i \in DOMAIN s |-> IF s[i] = old THEN new ELSE s[i] ]

StartsWith(s, p) == Len(s) >= Len(p) /\ SubSeq(s, 1, Len(p)) = p

EndsWith(s, p) == Len(s) >= Len(p) /\ SubSeq(s, Len(s) - Len(p) + 1, Len(s)) = p

---------------------------------------------------------------------------
(* database.py: catalog builder *)

W_a_ == << "a", "_" >>
W_osm == << "_", "o", "s", "m" >>
NL == "\n"

\* re.sub(r"^a_", "", s)
re_sub_prefix(s) ==
    IF StartsWith(s, W_a_) THEN SubSeq(s, 3, Len(s)) ELSE s

\* re.sub(r"_osm$", "", s): in Python "$" matches at the end of the string
\* and also just before a newline that ends the string
re_sub_suffix(s) ==
    IF EndsWith(s, W_osm) THEN SubSeq(s, 1, Len(s) - 4)
    ELSE IF EndsWith(s, W_osm \o << NL >>)
         THEN SubSeq(s, 1, Len(s) - 5) \o << NL >>
         ELSE s

\* first index >= i of s that holds a character of [a-z], or Len(s) + 1
RECURSIVE SkipRun(_, _)
SkipRun(s, i) ==
    IF i > Len(s) \/ IsAZ(s[i]) THEN i ELSE SkipRun(s, i + 1)

\* re.split(r"[^a-z]+", s): the pieces between the maximal runs of
\* characters outside [a-z]; a piece is empty where s starts or ends with a run
RECURSIVE re_split(_, _, _, _)
re_split(s, i, cur, out) ==
    IF i > Len(s) THEN Append(out, cur)
    ELSE IF IsAZ(s[i]) THEN re_split(s, i + 1, Append(cur, s[i]), out)
    ELSE re_split(s, SkipRun(s, i), << >>, Append(out, cur))

\* tokenize_name(dataset_name)
tokenize_name(dataset_name) ==
    LET cleaned == re_sub_suffix(re_sub_prefix(str_lower(dataset_name)))
        tokens == re_split(cleaned, 1, << >>, << >>)
    IN  SelectSeq(tokens, LAMBDA t : t # << >>)

W_education == << "e","d","u","c","a","t","i","o","n" >>
W_educational == << "e","d","u","c","a","t","i","o","n","a","l" >>
W_school == << "s","c","h","o","o","l" >>
W_schools == << "s","c","h","o","o","l","s" >>
W_pipeline == << "p","i","p","e","l","i","n","e" >>
W_pipelines == << "p","i","p","e","l","i","n","e","s" >>
W_oil == << "o","i","l" >>
W_gas == << "g","a","s" >>
W_roads == << "r","o","a","d","s" >>
W_road == << "r","o","a","d" >>
W_street == << "s","t","r","e","e","t" >>
W_streets == << "s","t","r","e","e","t","s" >>
W_arctic == << "a","r","c","t","i","c" >>

SYNONYM_MAP ==
    (W_education :> << W_schools, W_school, W_education, W_educational >>) @@
    (W_pipeline  :> << W_pipelines, W_pipeline, W_oil, W_gas >>) @@
    (W_pipelines :> << W_pipelines, W_pipeline, W_oil, W_gas >>) @@
    (W_roads     :> << W_roads, W_road, W_street, W_streets >>)

\* the inner loop: for synonym in SYNONYM_MAP[token]: aliases.add(synonym)
RECURSIVE AddSynonyms(_, _, _)
AddSynonyms(aliases, syns, j) ==
    IF j > Len(syns) THEN aliases
    ELSE AddSynonyms(aliases \cup { syns[j] }, syns, j + 1)

\* the outer loop: for token in tokens
RECURSIVE AliasLoop(_, _, _)
AliasLoop(aliases, tokens, i) ==
    IF i > Len(tokens) THEN aliases
    ELSE IF tokens[i] \in DOMAIN SYNONYM_MAP
         THEN AliasLoop(AddSynonyms(aliases, SYNONYM_MAP[tokens[i]], 1), tokens, i + 1)
         ELSE AliasLoop(aliases, tokens, i + 1)

\* generate_aliases that forgets to start from the tokens themselves
generate_aliases_no_tokens(tokens) == AliasLoop({}, tokens, 1)

generate_aliases(tokens) == AliasLoop(Range(tokens), tokens, 1)

---------------------------------------------------------------------------
(* The source tree under DATA_DIR *)

D_data == << "d","a","t","a" >>
D_north == << "n","o","r","t","h" >>
D_education ==
    << "a","_","A","r","c","t","i","c","_","e","d","u","c","a","t","i","o","n","_","o","s","m" >>
D_pipelines == << "O","i","l","-","P","i","p","e","l","i","n","e","s" >>
D_roads == << "M","a","i","n"," ","R","o","a","d","s" >>

\* the .shp files that DATA_DIR.rglob("*.shp") finds; dirs are the folders
\* between DATA_DIR and the file
SourceFiles ==
    << [dirs |-> << D_education >>],           \* data/a_Arctic_education_osm/*.shp
       [dirs |-> << D_pipelines >>],           \* data/Oil-Pipelines/*.shp
       [dirs |-> << D_north, D_roads >>],      \* data/north/Main Roads/*.shp
       [dirs |-> << >>],                       \* data/*.shp
       [dirs |-> << D_data >>] >>              \* data/data/*.shp

Files == DOMAIN SourceFiles

\* the datasets whose export is re-issued (their content has versions)
Datasets == { 1, 2, 3 }

\* a path that does not exist
MissingFile == 0

\* shapefile_path.parent.name; DATA_DIR itself is named "data"
parent_name(f) ==
    LET dirs == SourceFiles[f].dirs
    IN  IF dirs = << >> THEN D_data ELSE dirs[Len(dirs)]

---------------------------------------------------------------------------
(* Coordinate reference systems and geometry *)

NoCRS == "none"
WGS84 == "EPSG:4326"
POLAR == "EPSG:3995"

\* EPSG:3995 along a meridian: metres from the pole
PoleLat == 90
MetersPerUnit == 100

to_polar(g) == (PoleLat - g) * MetersPerUnit
to_wgs84(y) == PoleLat - (y \div MetersPerUnit)

Feature(fid, lo, hi) == [fid |-> fid, lo |-> lo, hi |-> hi]

\* GeoDataFrame.to_crs: the coordinates of every feature are transformed;
\* a frame without CRS cannot be transformed (ValueError)
to_crs(gdf, target) ==
    IF gdf.crs = NoCRS THEN [ok |-> FALSE, exc |-> "ValueError"]
    ELSE IF gdf.crs = target THEN [ok |-> TRUE, gdf |-> gdf]
    ELSE IF target = POLAR
    THEN [ok |-> TRUE,
          gdf |-> [crs |-> POLAR,
                   feats |-> [ i \in DOMAIN gdf.feats |->
                       Feature(gdf.feats[i].fid, to_polar(gdf.feats[i].hi),
                               to_polar(gdf.feats[i].lo)) ]]]
    ELSE [ok |-> TRUE,
          gdf |-> [crs |-> WGS84,
                   feats |-> [ i \in DOMAIN gdf.feats |->
                       Feature(gdf.feats[i].fid, to_wgs84(gdf.feats[i].hi),
                               to_wgs84(gdf.feats[i].lo)) ]]]

\* the true (geographic) extent of the features of source file f at version v
TrueFeatures(f, v) ==
    CASE f = 1 -> << Feature(0, 78 + v, 78 + v), Feature(1, 65 + v, 65 + v),
                     Feature(2, 58 + v, 58 + v), Feature(3, 35 + v, 35 + v) >>
      [] f = 2 -> << Feature(0, 75 + v, 77 + v) >>
      [] f = 3 -> IF v = 2 THEN << >> ELSE << Feature(0, 50 + v, 50 + v) >>
      [] OTHER -> << Feature(0, 40, 40) >>

\* the CRS recorded in source file f at version v
SourceCrs(f, v) ==
    CASE f = 1 -> IF v % 2 = 1 THEN NoCRS ELSE WGS84
      [] f = 2 -> IF v % 2 = 1 THEN POLAR ELSE WGS84
      [] f = 3 -> IF v % 2 = 1 THEN POLAR ELSE WGS84
      [] OTHER -> WGS84

\* gpd.read_file(shapefile_path): the frame in the file's own CRS, or an
\* exception for a file that cannot be parsed
read_file(f, v) ==
    IF f = 3 /\ v = 1 THEN [ok |-> FALSE, exc |-> "DriverError"]
    ELSE LET geo == [crs |-> WGS84, feats |-> TrueFeatures(f, v)]
         IN  IF SourceCrs(f, v) = POLAR
             THEN [ok |-> TRUE, gdf |-> to_crs(geo, POLAR).gdf]
             ELSE [ok |-> TRUE, gdf |-> [geo EXCEPT !.crs = SourceCrs(f, v)]]

\* gdf.geometry.geom_type.iloc[0] if len(gdf) > 0 else "Unknown"
geom_type(feats) ==
    IF Len(feats) = 0 THEN "Unknown"
    ELSE IF feats[1].lo = feats[1].hi THEN "Point" ELSE "LineString"

---------------------------------------------------------------------------
(* database.py: layer store *)

\* folder_name.lower().replace(" ", "_").replace("-", "_")
table_name_of(folder_name) ==
    str_replace(str_replace(str_lower(folder_name), " ", "_"), "-", "_")

\* the table name load_shapefiles derives for each source file
derived_table_name == [ f \in Files |-> table_name_of(parent_name(f)) ]

\* step 3 of load_shapefile without the reprojection branch
normalize_crs_no_reproject(gdf) ==
    IF gdf.crs = NoCRS THEN [gdf EXCEPT !.crs = WGS84] ELSE gdf

\* step 3 of load_shapefile: ensure the frame is in EPSG:4326
normalize_crs(gdf) ==
    IF gdf.crs = NoCRS THEN [gdf EXCEPT !.crs = WGS84]
    ELSE IF gdf.crs # WGS84 THEN to_crs(gdf, WGS84).gdf
    ELSE gdf

\* step 4 of load_shapefile: fiona.remove of the layer, when the store exists;
\* its failures are swallowed
fiona_remove(exists, tables, table_name) ==
    IF exists THEN { l \in tables : l.name # table_name } ELSE tables

\* to_file in append mode: the rows are added to a table of that name
to_file_append(tables, gdf, table_name) ==
    IF \E l \in tables : l.name = table_name
    THEN { IF l.name = table_name
           THEN [l EXCEPT !.feats = l.feats \o gdf.feats] ELSE l : l \in tables }
    ELSE tables \cup { [name |-> table_name, crs |-> gdf.crs, feats |-> gdf.feats] }

\* step 5 of load_shapefile: gdf.to_file(DB_PATH, layer=table_name) writes the
\* table anew (mode "w"), creating the store when absent
to_file(tables, gdf, table_name) ==
    { l \in tables : l.name # table_name }
        \cup { [name |-> table_name, crs |-> gdf.crs, feats |-> gdf.feats] }

\* load_shapefile that neither removes the old table nor writes anew
load_shapefile_appending(exists, tables, f, v, table_name) ==
    IF f = MissingFile
    THEN [ok |-> FALSE, exc |-> "FileNotFoundError", exists |-> exists, tables |-> tables]
    ELSE LET rd == read_file(f, v)
         IN  IF ~rd.ok
             THEN [ok |-> FALSE, exc |-> rd.exc, exists |-> exists, tables |-> tables]
             ELSE LET gdf == normalize_crs(rd.gdf)
                  IN  [ok |-> TRUE, exists |-> TRUE,
                       tables |-> to_file_append(tables, gdf, table_name),
                       removed |-> FALSE,
                       printed |-> [n |-> Len(gdf.feats), geom_type |-> geom_type(gdf.feats)]]

\* load_shapefile(shapefile_path, table_name) on the store (exists, tables)
load_shapefile(exists, tables, f, v, table_name) ==
    IF f = MissingFile
    THEN [ok |-> FALSE, exc |-> "FileNotFoundError", exists |-> exists, tables |-> tables]
    ELSE LET rd == read_file(f, v)
         IN  IF ~rd.ok
             THEN [ok |-> FALSE, exc |-> rd.exc, exists |-> exists, tables |-> tables]
             ELSE LET gdf == normalize_crs(rd.gdf)
                      kept == fiona_remove(exists, tables, table_name)
                  IN  [ok |-> TRUE, exists |-> TRUE,
                       tables |-> to_file(kept, gdf, table_name),
                       removed |-> kept # tables,
                       printed |-> [n |-> Len(gdf.feats), geom_type |-> geom_type(gdf.feats)]]

\* the loop of load_shapefiles over the files in the order rglob yields them;
\* st = [exists, tables, loaded, attempted, failed]
RECURSIVE ScanLoop(_, _, _, _)
ScanLoop(order, i, versions, st) ==
    IF i > Len(order) THEN st
    ELSE LET f == order[i]
             folder_name == parent_name(f)
         IN  IF folder_name = D_data
             THEN ScanLoop(order, i + 1, versions, st)
             ELSE LET r == load_shapefile(st.exists, st.tables, f, versions[f],
                                          derived_table_name[f])
                  IN  ScanLoop(order, i + 1, versions,
                        [exists |-> r.exists, tables |-> r.tables,
                         loaded |-> IF r.ok THEN st.loaded + 1 ELSE st.loaded,
                         attempted |-> st.attempted \cup { f },
                         failed |-> IF r.ok THEN st.failed ELSE st.failed \cup { f }])

\* load_shapefiles() on the store (exists, tables)
load_shapefiles(exists, tables, versions, order) ==
    ScanLoop(order, 1, versions,
             [exists |-> exists, tables |-> tables, loaded |-> 0,
              attempted |-> {}, failed |-> {}])

\* the orders in which rglob yields the files: directory order is up to the
\* file system; the model takes one order and its reverse
ScanOrders ==
    { [ i \in 1..Cardinality(Files) |-> i ],
      [ i \in 1..Cardinality(Files) |-> Cardinality(Files) + 1 - i ] }

---------------------------------------------------------------------------
(* database.py: reading the store *)

None == [type |-> "None"]

char_upper(c) ==
    IF c \in Range(LowerLetters)
    THEN UpperLetters[CHOOSE i \in DOMAIN LowerLetters : LowerLetters[i] = c]
    ELSE c

IsLetter(c) == c \in Range(LowerLetters) \cup Range(UpperLetters)

\* str.title(): the first letter of every run of letters in upper case, the
\* others in lower case
str_title(s) ==
    [ i \in DOMAIN s |->
        IF i = 1 \/ ~IsLetter(s[i - 1]) THEN char_upper(s[i]) ELSE char_lower(s[i]) ]

W_dataset == << " ","d","a","t","a","s","e","t" >>

\* fiona.listlayers(str(DB_PATH))
listlayers(tables) == { l.name : l \in tables }

\* gpd.read_file(DB_PATH, layer=layer_name): the table of that name
read_layer(tables, layer_name) == CHOOSE l \in tables : l.name = layer_name

\* one entry of the catalog (the body of the loop of get_dataset_catalog)
catalog_entry(tables, layer_name) ==
    LET tokens == tokenize_name(layer_name)
    IN  [name |-> layer_name,
         tokens |-> tokens,
         aliases |-> generate_aliases(tokens),
         geometry_type |-> geom_type(read_layer(tables, layer_name).feats),
         description |-> str_title(str_replace(layer_name, "_", " ")) \o W_dataset]

\* get_dataset_catalog(): a dict from layer name to entry; {} when the store
\* does not exist or holds no table
get_dataset_catalog(exists, tables) ==
    IF ~exists THEN << >>
    ELSE [ n \in listlayers(tables) |-> catalog_entry(tables, n) ]

\* get_layer_data whose error lists nothing
get_layer_data_no_list(exists, tables, layer_name) ==
    IF ~exists
    THEN [ok |-> FALSE, exc |-> "FileNotFoundError", msg |-> [kind |-> "NotInitialized"]]
    ELSE IF layer_name \in listlayers(tables)
    THEN [ok |-> TRUE, gdf |-> read_layer(tables, layer_name)]
    ELSE [ok |-> FALSE, exc |-> "ValueError",
          msg |-> [kind |-> "LayerNotFound", layer |-> layer_name, available |-> {}]]

\* get_layer_data(layer_name)
get_layer_data(exists, tables, layer_name) ==
    IF ~exists
    THEN [ok |-> FALSE, exc |-> "FileNotFoundError", msg |-> [kind |-> "NotInitialized"]]
    ELSE IF layer_name \in listlayers(tables)
    THEN [ok |-> TRUE, gdf |-> read_layer(tables, layer_name)]
    ELSE [ok |-> FALSE, exc |-> "ValueError",
          msg |-> [kind |-> "LayerNotFound", layer |-> layer_name,
                   available |-> DOMAIN get_dataset_catalog(exists, tables)]]

---------------------------------------------------------------------------
(* gis_processor.py *)

\* units of the fixed-point representation of a float per 1.0
FixedPoint == 10000

\* the table of convert_to_meters, in fixed point
units_to_meters ==
    [meters |-> 10000, kilometers |-> 10000000, miles |-> 16093400, feet |-> 3048]

\* convert_to_meters that does not reject an unknown unit (factor 1)
convert_to_meters_lenient(distance, unit) ==
    IF unit \notin DOMAIN units_to_meters
    THEN [ok |-> TRUE, ret |-> distance * FixedPoint]
    ELSE [ok |-> TRUE, ret |-> distance * units_to_meters[unit]]

\* convert_to_meters(distance, unit); the result is in fixed point
convert_to_meters(distance, unit) ==
    IF unit \notin DOMAIN units_to_meters
    THEN [ok |-> FALSE, exc |-> "ValueError",
          msg |-> [kind |-> "UnsupportedUnit", unit |-> unit]]
    ELSE [ok |-> TRUE, ret |-> distance * units_to_meters[unit]]

\* GeoDataFrame.buffer(distance_meters): one polygon per feature, in fixed
\* point; the buffer of a point or a line by a distance <= 0 is empty
buffer(feats, distance_meters) ==
    [ i \in DOMAIN feats |->
        IF distance_meters > 0
        THEN [empty |-> FALSE,
              lo |-> feats[i].lo * FixedPoint - distance_meters,
              hi |-> feats[i].hi * FixedPoint + distance_meters]
        ELSE [empty |-> TRUE] ]

\* GeoSeries.union_all(): the region covered by the polygons, as the set of
\* the intervals that make it up
union_all(polygons) ==
    { [lo |-> polygons[i].lo, hi |-> polygons[i].hi] :
        i \in { j \in DOMAIN polygons : ~polygons[j].empty } }

\* the mask negated: the features that share no point with the region
intersects_negated(feature, region) ==
    ~ \E part \in region :
        feature.lo * FixedPoint <= part.hi /\ part.lo <= feature.hi * FixedPoint

\* geometry.intersects(region): the feature shares a point with the region,
\* its boundary included
intersects(feature, region) ==
    \E part \in region :
        feature.lo * FixedPoint <= part.hi /\ part.lo <= feature.hi * FixedPoint

\* the dissolved region taken back to EPSG:4326 (fixed point)
region_to_wgs84(region) ==
    { [lo |-> PoleLat * FixedPoint - (part.hi \div MetersPerUnit),
       hi |-> PoleLat * FixedPoint - (part.lo \div MetersPerUnit)] : part \in region }

\* json.loads(gdf.to_json())
to_geojson(features) == [type |-> "FeatureCollection", features |-> features]

\* steps 8 of perform_buffer_analysis without the test on count
features_output_always(count, final_results) == to_geojson(final_results)

\* step 8 of perform_buffer_analysis: the matched features, or None when
\* there are none
features_output(count, final_results) ==
    IF count > 0 THEN to_geojson(final_results) ELSE None

\* perform_buffer_analysis without the two zero-feature tests of lines 26-31
perform_buffer_analysis_no_empty_check(exists, tables, target_layer, buffer_layer, distance, unit) ==
    LET target == get_layer_data(exists, tables, target_layer)
        buffer_l == get_layer_data(exists, tables, buffer_layer)
        dm == convert_to_meters(distance, unit)
        reprojected_buffer == to_crs(buffer_l.gdf, POLAR)
        reprojected_target == to_crs(target.gdf, POLAR)
        dissolved_buffer == union_all(buffer(reprojected_buffer.gdf.feats, dm.ret))
        results == SelectSeq(reprojected_target.gdf.feats,
                             LAMBDA t : intersects(t, dissolved_buffer))
        count == Len(results)
        final_results == to_crs([crs |-> POLAR, feats |-> results], WGS84).gdf
    IN  IF ~target.ok THEN target
        ELSE IF ~buffer_l.ok THEN buffer_l
        ELSE IF ~dm.ok THEN dm
        ELSE IF ~reprojected_buffer.ok THEN reprojected_buffer
        ELSE IF ~reprojected_target.ok THEN reprojected_target
        ELSE [ok |-> TRUE,
              ret |-> [count |-> count,
                       features_geojson |-> features_output(count, final_results.feats),
                       buffer_geojson |->
                           to_geojson(<< region_to_wgs84(dissolved_buffer) >>),
                       params |-> [target_layer |-> target_layer,
                                   buffer_layer |-> buffer_layer,
                                   distance |-> distance,
                                   unit |-> unit]]]

\* perform_buffer_analysis(target_layer, buffer_layer, distance, unit)
perform_buffer_analysis(exists, tables, target_layer, buffer_layer, distance, unit) ==
    LET target == get_layer_data(exists, tables, target_layer)
        buffer_l == get_layer_data(exists, tables, buffer_layer)
        dm == convert_to_meters(distance, unit)
        reprojected_buffer == to_crs(buffer_l.gdf, POLAR)
        reprojected_target == to_crs(target.gdf, POLAR)
        dissolved_buffer == union_all(buffer(reprojected_buffer.gdf.feats, dm.ret))
        results == SelectSeq(reprojected_target.gdf.feats,
                             LAMBDA t : intersects(t, dissolved_buffer))
        count == Len(results)
        final_results == to_crs([crs |-> POLAR, feats |-> results], WGS84).gdf
    IN  IF ~target.ok THEN target
        ELSE IF ~buffer_l.ok THEN buffer_l
        ELSE IF Len(target.gdf.feats) = 0
        THEN [ok |-> FALSE, exc |-> "ValueError",
              msg |-> [kind |-> "EmptyLayer", layer |-> target_layer]]
        ELSE IF Len(buffer_l.gdf.feats) = 0
        THEN [ok |-> FALSE, exc |-> "ValueError",
              msg |-> [kind |-> "EmptyLayer", layer |-> buffer_layer]]
        ELSE IF ~dm.ok THEN dm
        ELSE IF ~reprojected_buffer.ok THEN reprojected_buffer
        ELSE IF ~reprojected_target.ok THEN reprojected_target
        ELSE [ok |-> TRUE,
              ret |-> [count |-> count,
                       features_geojson |-> features_output(count, final_results.feats),
                       buffer_geojson |->
                           to_geojson(<< region_to_wgs84(dissolved_buffer) >>),
                       params |-> [target_layer |-> target_layer,
                                   buffer_layer |-> buffer_layer,
                                   distance |-> distance,
                                   unit |-> unit]]]

---------------------------------------------------------------------------
(* llm_handler.py: query validator *)

\* what the language model answers: no function call, or a call with its
\* name and arguments
NoCall == [function_call |-> None]

FunctionCall(name, target_layer, buffer_layer, distance, unit) ==
    [function_call |->
        [name |-> name,
         args |-> [target_layer |-> target_layer, buffer_layer |-> buffer_layer,
                   distance |-> distance, unit |-> unit]]]

\* step 7 of extract_user_intent that stops at the first unresolved name
missing_datasets_first_only(catalog, target_layer, buffer_layer) ==
    IF target_layer \notin DOMAIN catalog THEN << target_layer >>
    ELSE IF buffer_layer \notin DOMAIN catalog THEN << buffer_layer >>
    ELSE << >>

\* step 7 of extract_user_intent that reports no name as unresolved
missing_datasets_none(catalog, target_layer, buffer_layer) ==
    << >>

\* step 7 of extract_user_intent: the names that are no key of the catalog
missing_datasets(catalog, target_layer, buffer_layer) ==
    (IF target_layer \notin DOMAIN catalog THEN << target_layer >> ELSE << >>)
        \o (IF buffer_layer \notin DOMAIN catalog THEN << buffer_layer >> ELSE << >>)

\* extract_user_intent(query), given the answer of the language model; calls
\* lists the analysis functions the call invoked
extract_user_intent(exists, tables, response) ==
    LET catalog == get_dataset_catalog(exists, tables)
        dataset_list == DOMAIN catalog
        function_call == response.function_call
        args == function_call.args
        missing == missing_datasets(catalog, args.target_layer, args.buffer_layer)
    IN  IF DOMAIN catalog = {}
        THEN [ok |-> FALSE, exc |-> "ValueError", msg |-> [kind |-> "NoDatasets"],
              calls |-> << >>]
        ELSE IF function_call = None
        THEN [ok |-> TRUE, ret |-> [message |-> [kind |-> "Text"]], calls |-> << >>]
        ELSE IF missing # << >>
        THEN [ok |-> TRUE,
              ret |-> [message |-> [kind |-> "DatasetsNotFound",
                                    missing |-> missing,
                                    dataset_list |-> dataset_list]],
              calls |-> << >>]
        ELSE IF function_call.name = "buffer_analysis"
        THEN perform_buffer_analysis(exists, tables, args.target_layer,
                                     args.buffer_layer, args.distance, args.unit)
                 @@ [calls |-> << "perform_buffer_analysis" >>]
        ELSE [ok |-> TRUE, ret |-> None, calls |-> << >>]

\* generate_results_interpretation(query, analysis_output), given whether the
\* language model answered ("text") or failed ("error")
generate_results_interpretation(generated, analysis_output) ==
    IF generated = "text"
    THEN [kind |-> "Summary"]
    ELSE [kind |-> "Found",
          count |-> analysis_output.count,
          target_layer |-> analysis_output.params.target_layer,
          distance |-> analysis_output.params.distance,
          unit |-> analysis_output.params.unit,
          buffer_layer |-> analysis_output.params.buffer_layer]

\* lines 61-88 of process_user_query, given the outcome of the call of
\* extract_user_intent: its exception passes through, `"message" in None` is
\* a TypeError, and a returned dictionary is packaged
package_results(results, generated) ==
    IF ~results.ok THEN results
    ELSE IF results.ret = None
    THEN [ok |-> FALSE, exc |-> "TypeError", calls |-> results.calls]
    ELSE IF "message" \in DOMAIN results.ret
    THEN [ok |-> TRUE,
          ret |-> [message |-> results.ret.message,
                   features_geojson |-> None,
                   buffer_geojson |-> None,
                   count |-> None,
                   params |-> None],
          calls |-> results.calls]
    ELSE [ok |-> TRUE,
          ret |-> [message |-> generate_results_interpretation(generated, results.ret),
                   features_geojson |-> results.ret.features_geojson,
                   buffer_geojson |-> results.ret.buffer_geojson,
                   count |-> results.ret.count,
                   params |-> results.ret.params],
          calls |-> results.calls \o << "generate_results_interpretation" >>]

\* process_user_query(query)
process_user_query(exists, tables, response, generated) ==
    package_results(extract_user_intent(exists, tables, response), generated)

---------------------------------------------------------------------------
(* app.py: the chat endpoint *)

\* the message of the last except clause of chat
GenericMessage == [kind |-> "Generic"]

ChatResponse(message, features_geojson, buffer_geojson, count, params) ==
    [message |-> message, features_geojson |-> features_geojson,
     buffer_geojson |-> buffer_geojson, count |-> count, params |-> params]

\* the try statement of chat, given the outcome of process_user_query; raised
\* is the exception that an except clause caught
chat_response(result) ==
    IF result.ok
    THEN [ok |-> TRUE, raised |-> None,
          ret |-> ChatResponse(result.ret.message, result.ret.features_geojson,
                               result.ret.buffer_geojson, result.ret.count,
                               result.ret.params)]
    ELSE IF result.exc = "ValueError"
    THEN [ok |-> TRUE, raised |-> [exc |-> result.exc, msg |-> result.msg],
          ret |-> ChatResponse(result.msg, None, None, None, None)]
    ELSE [ok |-> TRUE, raised |-> [exc |-> result.exc, msg |-> None],
          ret |-> ChatResponse(GenericMessage, None, None, None, None)]

\* chat(request), given the answers of the language model
chat(exists, tables, response, generated) ==
    chat_response(process_user_query(exists, tables, response, generated))

---------------------------------------------------------------------------
(* Inputs *)

\* the layer names a caller or the language model asks for: the names the
\* datasets are stored under, and a word that is only an alias
QueryNames == { derived_table_name[f] : f \in Datasets } \cup { W_schools }

Distances == (0 - 1) .. MaxDistance

Units == { "meters", "kilometers", "miles", "feet", "km" }

Responses ==
    { NoCall }
        \cup { FunctionCall("buffer_analysis", t, b, d, u) :
                 t \in QueryNames, b \in QueryNames,
                 d \in { 1, MaxDistance }, u \in { "miles", "km" } }
        \cup { FunctionCall("intersection_analysis", t, t, 1, "miles") : t \in QueryNames }

\* what the language model does when asked to summarise a result: it
\* answers with a text, or the request fails
Generated == { "text", "error" }

---------------------------------------------------------------------------
(* State machine *)

Idle == [op |-> "idle"]

Init ==
    /\ fs = [ f \in Files |-> 1 ]
    /\ dbExists = FALSE
    /\ layers = {}
    /\ call = Idle

\* the number of re-exports that led to the source tree versions
RECURSIVE SumEdits(_, _)
SumEdits(versions, f) ==
    IF f > Cardinality(Files) THEN 0 ELSE (versions[f] - 1) + SumEdits(versions, f + 1)

Edits(versions) == SumEdits(versions, 1)

\* the export of a dataset is replaced by its next version
EditSource(f) ==
    /\ call = Idle
    /\ Edits(fs) < MaxEdits
    /\ fs' = [fs EXCEPT ![f] = fs[f] + 1]
    /\ UNCHANGED << dbExists, layers, call >>

\* load_shapefile(path, table_name), called as load_shapefiles calls it
LoadShapefile(f) ==
    /\ call = Idle
    /\ LET table_name == IF f = MissingFile THEN derived_table_name[3]
                         ELSE derived_table_name[f]
           version == IF f = MissingFile THEN 1 ELSE fs[f]
           r == load_shapefile(dbExists, layers, f, version, table_name)
       IN  /\ dbExists' = r.exists
           /\ layers' = r.tables
           /\ call' = [op |-> "load_shapefile", path |-> f, table_name |-> table_name,
                       existed |-> table_name \in listlayers(layers),
                       out |-> IF r.ok
                               THEN [ok |-> TRUE, removed |-> r.removed, printed |-> r.printed]
                               ELSE [ok |-> FALSE, exc |-> r.exc]]
    /\ UNCHANGED fs

\* load_shapefiles()
LoadShapefiles ==
    /\ call = Idle
    /\ \E order \in ScanOrders :
         LET st == load_shapefiles(dbExists, layers, fs, order)
         IN  /\ dbExists' = st.exists
             /\ layers' = st.tables
             /\ call' = [op |-> "load_shapefiles", attempted |-> st.attempted,
                         failed |-> st.failed, out |-> [ok |-> TRUE, ret |-> st.loaded]]
    /\ UNCHANGED fs

\* init_database(): the store is created, then load_shapefiles() runs
InitDatabase ==
    /\ call = Idle
    /\ \E order \in ScanOrders :
         LET st == load_shapefiles(TRUE, layers, fs, order)
         IN  /\ dbExists' = st.exists
             /\ layers' = st.tables
             /\ call' = [op |-> "init_database", attempted |-> st.attempted,
                         failed |-> st.failed, out |-> [ok |-> TRUE, ret |-> st.loaded]]
    /\ UNCHANGED fs

GetLayerData(layer_name) ==
    /\ call = Idle
    /\ call' = [op |-> "get_layer_data", layer_name |-> layer_name,
                out |-> get_layer_data(dbExists, layers, layer_name)]
    /\ UNCHANGED << fs, dbExists, layers >>

GetDatasetCatalog ==
    /\ call = Idle
    /\ call' = [op |-> "get_dataset_catalog",
                out |-> [ok |-> TRUE, ret |-> get_dataset_catalog(dbExists, layers)]]
    /\ UNCHANGED << fs, dbExists, layers >>

ConvertToMeters(distance, unit) ==
    /\ call = Idle
    /\ call' = [op |-> "convert_to_meters", distance |-> distance, unit |-> unit,
                out |-> convert_to_meters(distance, unit)]
    /\ UNCHANGED << fs, dbExists, layers >>

\* perform_buffer_analysis that saves the reprojected target layer over the
\* stored one
PerformBufferAnalysis_saving_reprojection(target_layer, buffer_layer, distance, unit) ==
    /\ call = Idle
    /\ call' = [op |-> "perform_buffer_analysis",
                target_layer |-> target_layer, buffer_layer |-> buffer_layer,
                distance |-> distance, unit |-> unit,
                out |-> perform_buffer_analysis(dbExists, layers, target_layer,
                                                buffer_layer, distance, unit)]
    /\ layers' = IF dbExists /\ target_layer \in listlayers(layers)
                 THEN to_file(layers, to_crs(read_layer(layers, target_layer), POLAR).gdf,
                              target_layer)
                 ELSE layers
    /\ UNCHANGED << fs, dbExists >>

PerformBufferAnalysis(target_layer, buffer_layer, distance, unit) ==
    /\ call = Idle
    /\ call' = [op |-> "perform_buffer_analysis",
                target_layer |-> target_layer, buffer_layer |-> buffer_layer,
                distance |-> distance, unit |-> unit,
                out |-> perform_buffer_analysis(dbExists, layers, target_layer,
                                                buffer_layer, distance, unit)]
    /\ UNCHANGED << fs, dbExists, layers >>

ExtractUserIntent(response) ==
    /\ call = Idle
    /\ call' = [op |-> "extract_user_intent", response |-> response,
                out |-> extract_user_intent(dbExists, layers, response)]
    /\ UNCHANGED << fs, dbExists, layers >>

ProcessUserQuery(response, generated) ==
    /\ call = Idle
    /\ call' = [op |-> "process_user_query", response |-> response,
                out |-> process_user_query(dbExists, layers, response, generated)]
    /\ UNCHANGED << fs, dbExists, layers >>

\* POST /api/chat
Chat(response, generated) ==
    /\ call = Idle
    /\ call' = [op |-> "chat", response |-> response,
                out |-> chat(dbExists, layers, response, generated)]
    /\ UNCHANGED << fs, dbExists, layers >>

\* the caller has taken the outcome of the call
Return ==
    /\ call # Idle
    /\ call' = Idle
    /\ UNCHANGED << fs, dbExists, layers >>

Next ==
    \/ \E f \in Datasets : EditSource(f)
    \/ \E f \in Datasets \cup { MissingFile } : LoadShapefile(f)
    \/ LoadShapefiles
    \/ InitDatabase
    \/ \E n \in QueryNames : GetLayerData(n)
    \/ GetDatasetCatalog
    \/ \E d \in Distances, u \in Units : ConvertToMeters(d, u)
    \/ \E t \in QueryNames, b \in QueryNames, d \in Distances, u \in Units :
         PerformBufferAnalysis(t, b, d, u)
    \/ \E r \in Responses : ExtractUserIntent(r)
    \/ \E r \in Responses, g \in Generated : ProcessUserQuery(r, g)
    \/ \E r \in Responses, g \in Generated : Chat(r, g)
    \/ Return

Spec == Init /\ [][Next]_vars

---------------------------------------------------------------------------
(* tokenize_name as a function of its argument *)

MidAlphabet == { "b", "Z", "_", "7", " " }

Prefixes == { << >>, W_a_, << "A", "_" >>, << "a" >> }

Suffixes == { << >>, W_osm, << "_", "O", "S", "M" >>, << "o", "s", "m" >>,
              W_osm \o << NL >> }

\* the names tokenize_name is applied to: an optional marker, a free middle
\* part, an optional marker; and the names of the source folders
TokenizerInputs ==
    { pre \o mid \o suf :
        pre \in Prefixes,
        mid \in UNION { [1..k -> MidAlphabet] : k \in 0..MaxMidLen },
        suf \in Suffixes }
    \cup { parent_name(f) : f \in Files } \cup { derived_table_name[f] : f \in Files }

InitTok ==
    /\ fs = [ f \in Files |-> 1 ]
    /\ dbExists = FALSE
    /\ layers = {}
    /\ call \in { [op |-> "input", dataset_name |-> n] : n \in TokenizerInputs }

TokenizeName ==
    /\ call.op = "input"
    /\ call' = [op |-> "tokenize_name", dataset_name |-> call.dataset_name,
                out |-> [ok |-> TRUE, ret |-> tokenize_name(call.dataset_name)]]
    /\ UNCHANGED << fs, dbExists, layers >>

NextTok == TokenizeName

SpecTok == InitTok /\ [][NextTok]_vars

---------------------------------------------------------------------------
(* Claims *)

StoredNames == { l.name : l \in layers }

SupportedUnits == { "meters", "kilometers", "miles", "feet" }

\* C1: for a layer name that is not in the initialised store, get_layer_data
\* fails with the layer-not-found error, and the layers the error lists are
\* exactly the names stored.
C1_NotFoundListsStoredLayers ==
    (call.op = "get_layer_data" /\ dbExists /\ call.layer_name \notin StoredNames)
        => /\ ~call.out.ok
           /\ call.out.exc = "ValueError"
           /\ call.out.msg.kind = "LayerNotFound"
           /\ call.out.msg.available = StoredNames

C1_Witness ==
    /\ call.op = "get_layer_data"
    /\ dbExists
    /\ Cardinality(StoredNames) >= 2
    /\ call.layer_name \notin StoredNames
    /\ ~call.out.ok

ValidationReached ==
    /\ call.op = "extract_user_intent"
    /\ dbExists /\ layers # {}
    /\ call.response.function_call # None

ValidationFailed ==
    /\ call.out.ok
    /\ "message" \in DOMAIN call.out.ret
    /\ call.out.ret.message.kind = "DatasetsNotFound"

\* C2: validation fails iff the target or the buffer layer is no key of the
\* catalog; the failure names the target iff it is unresolved, names the
\* buffer layer iff it is unresolved, and lists every layer of the catalog.
C2_ValidationReportsAllMissing ==
    ValidationReached =>
        LET args == call.response.function_call.args
            t == args.target_layer
            b == args.buffer_layer
        IN  /\ ValidationFailed <=> (t \notin StoredNames \/ b \notin StoredNames)
            /\ ValidationFailed =>
                 LET m == call.out.ret.message
                 IN  /\ (t \in Range(m.missing)) <=> (t \notin StoredNames)
                     /\ (b \in Range(m.missing)) <=> (b \notin StoredNames)
                     /\ m.dataset_list = StoredNames

C2_Witness ==
    /\ ValidationReached
    /\ ValidationFailed
    /\ Len(call.out.ret.message.missing) = 2
    /\ call.out.ret.message.missing[1] # call.out.ret.message.missing[2]
    /\ Cardinality(call.out.ret.message.dataset_list) >= 2

\* C3: convert_to_meters(d, u) is d times the factor of u (1, 1000, 1609.34,
\* 0.3048; in fixed point with four decimals) for the four supported units,
\* and fails with the unsupported-unit error, returning nothing, otherwise.
C3_ConvertToMeters ==
    call.op = "convert_to_meters" =>
        LET d == call.distance
            u == call.unit
            out == call.out
        IN  /\ u = "meters" => out.ok /\ out.ret = d * 10000
            /\ u = "kilometers" => out.ok /\ out.ret = d * 10000000
            /\ u = "miles" => out.ok /\ out.ret = d * 16093400
            /\ u = "feet" => out.ok /\ out.ret = d * 3048
            /\ (d = 1 /\ u = "kilometers") => out.ret = 1000 * 10000
            /\ (d = 1 /\ u = "miles") => out.ret = 160934 * 100
            /\ (d = 1 /\ u = "feet") => out.ret = 3048
            /\ u \notin SupportedUnits =>
                 /\ ~out.ok
                 /\ out.exc = "ValueError"
                 /\ out.msg.kind = "UnsupportedUnit"
                 /\ "ret" \notin DOMAIN out

C3_Witness ==
    /\ call.op = "convert_to_meters"
    /\ call.distance = 1
    /\ call.unit = "miles"
    /\ call.out.ok
    /\ call.out.ret = 16093400

\* the tables stored under table_name
TablesNamed(table_name) == { l \in layers : l.name = table_name }

\* the store holds exactly one table of that name, with the features of
\* source file f as it is now
HoldsExactly(table_name, f) ==
    /\ Cardinality(TablesNamed(table_name)) = 1
    /\ \A l \in TablesNamed(table_name) :
         /\ Len(l.feats) = Len(TrueFeatures(f, fs[f]))
         /\ l.feats = TrueFeatures(f, fs[f])

\* C4: after a source is loaded again under the same derived name, the
\* store holds exactly one layer of that name, with the content of the last
\* load: the load replaces, it neither duplicates nor appends.
C4_ReloadReplaces ==
    /\ (call.op = "load_shapefile" /\ call.out.ok)
         => HoldsExactly(call.table_name, call.path)
    /\ call.op \in { "load_shapefiles", "init_database" }
         => \A f \in call.attempted \ call.failed :
              HoldsExactly(derived_table_name[f], f)

C4_Witness ==
    /\ call.op = "load_shapefile"
    /\ call.out.ok
    /\ call.existed
    /\ call.out.removed
    /\ fs[call.path] >= 2
    /\ Len(TrueFeatures(call.path, fs[call.path])) > 0

\* the source files that lie in a subdirectory of the data root
InSubdirectory == { f \in Files : SourceFiles[f].dirs # << >> }

\* C5: in load_shapefiles a failing file does not abort the scan: every
\* source file in a subdirectory is attempted, files directly under the data
\* root are skipped, and the value returned is the number of files loaded.
C5_ScanAttemptsEverySubdirectoryFile ==
    call.op \in { "load_shapefiles", "init_database" } =>
        /\ call.attempted = InSubdirectory
        /\ call.out.ret = Cardinality(call.attempted \ call.failed)

\* what the scan does do: every file whose parent folder is not named "data"
\* is attempted, also after a failure, and the successes are counted
C5_ScanAttemptsAllButDataFolders ==
    call.op \in { "load_shapefiles", "init_database" } =>
        /\ call.attempted = { f \in Files : parent_name(f) # D_data }
        /\ call.out.ret = Cardinality(call.attempted \ call.failed)
        /\ \A f \in call.attempted \ call.failed : derived_table_name[f] \in StoredNames

C5_FailureSeen ==
    /\ call.op = "load_shapefiles"
    /\ call.failed # {}
    /\ call.out.ret = 2

\* C6: every layer persisted in the store is in EPSG:4326; a source without
\* CRS or in EPSG:4326 is stored with its coordinates as they are, a source
\* in another CRS with its coordinates taken to EPSG:4326.
C6_StoredLayersAreWGS84 ==
    /\ \A l \in layers : l.crs = WGS84
    /\ (call.op = "load_shapefile" /\ call.out.ok) =>
         \A l \in TablesNamed(call.table_name) :
            LET f == call.path
                src == read_file(f, fs[f]).gdf
            IN  IF src.crs \in { NoCRS, WGS84 }
                THEN l.feats = src.feats
                ELSE l.feats = TrueFeatures(f, fs[f]) /\ l.feats # src.feats

C6_Witness ==
    /\ call.op = "load_shapefile"
    /\ call.out.ok
    /\ SourceCrs(call.path, fs[call.path]) = POLAR
    /\ \E l \in layers : l.name = call.table_name /\ l.crs = WGS84

\* the synonyms the table lists for the tokens that are keys of it
ListedSynonyms(tokens) ==
    UNION { Range(SYNONYM_MAP[t]) : t \in Range(tokens) \cap DOMAIN SYNONYM_MAP }

\* C7: in every catalog entry the alias set contains the token set, and is
\* the token set together with the synonyms the table lists for the tokens
\* that are keys of the table, nothing else.
C7_AliasesAreTokensAndSynonyms ==
    call.op = "get_dataset_catalog" =>
        \A n \in DOMAIN call.out.ret :
            LET e == call.out.ret[n]
            IN  /\ Range(e.tokens) \subseteq e.aliases
                /\ e.aliases = Range(e.tokens) \cup ListedSynonyms(e.tokens)

C7_Witness ==
    /\ call.op = "get_dataset_catalog"
    /\ \E n \in DOMAIN call.out.ret :
         /\ W_arctic \in call.out.ret[n].aliases
         /\ W_schools \in call.out.ret[n].aliases
    /\ \E n \in DOMAIN call.out.ret :
         /\ W_oil \in Range(call.out.ret[n].tokens)
         /\ W_gas \in call.out.ret[n].aliases

\* the name lowercased, without a leading "a_" and, then, without a
\* trailing "_osm"
StrippedOfMarkers(name) ==
    LET s0 == str_lower(name)
        s1 == IF StartsWith(s0, W_a_) THEN SubSeq(s0, 3, Len(s0)) ELSE s0
    IN  IF EndsWith(s1, W_osm) THEN SubSeq(s1, 1, Len(s1) - 4) ELSE s1

\* as Python's "_osm$" strips: the marker at the end of the name, or before
\* a newline that ends the name
StrippedAsDollar(name) ==
    LET s0 == str_lower(name)
        s1 == IF StartsWith(s0, W_a_) THEN SubSeq(s0, 3, Len(s0)) ELSE s0
    IN  IF EndsWith(s1, W_osm) THEN SubSeq(s1, 1, Len(s1) - 4)
        ELSE IF EndsWith(s1, W_osm \o << NL >>)
        THEN SubSeq(s1, 1, Len(s1) - 5) \o << NL >>
        ELSE s1

\* the maximal runs of letters of s, as pairs of first and last index
LetterRuns(s) ==
    { r \in (DOMAIN s) \X (DOMAIN s) :
        /\ r[1] <= r[2]
        /\ \A i \in r[1]..r[2] : IsAZ(s[i])
        /\ (r[1] = 1 \/ ~IsAZ(s[r[1] - 1]))
        /\ (r[2] = Len(s) \/ ~IsAZ(s[r[2] + 1])) }

\* tokens are the maximal runs of letters of s, in the order they occur
AreRunsOf(tokens, s) ==
    /\ Len(tokens) = Cardinality(LetterRuns(s))
    /\ \A r \in LetterRuns(s) :
         LET k == 1 + Cardinality({ q \in LetterRuns(s) : q[1] < r[1] })
         IN  tokens[k] = SubSeq(s, r[1], r[2])

LowercaseTokens(tokens) ==
    \A k \in DOMAIN tokens :
        tokens[k] # << >> /\ \A i \in DOMAIN tokens[k] : IsAZ(tokens[k][i])

\* C8: tokenize_name lowercases the name, strips a leading "a_" and a
\* trailing "_osm", and returns the maximal runs of letters of the rest, in
\* order; "a_arctic_education_osm" gives ["arctic", "education"]; every token
\* is a non-empty string of lowercase letters.
C8_TokenizeName ==
    call.op = "tokenize_name" =>
        /\ LowercaseTokens(call.out.ret)
        /\ AreRunsOf(call.out.ret, StrippedOfMarkers(call.dataset_name))
        /\ call.dataset_name = derived_table_name[1]
             => call.out.ret = << W_arctic, W_education >>

\* what tokenize_name does: as C8, with the trailing marker also stripped
\* when a newline follows it at the end of the name
C8_TokenizeNameAsDollar ==
    call.op = "tokenize_name" =>
        /\ LowercaseTokens(call.out.ret)
        /\ AreRunsOf(call.out.ret, StrippedAsDollar(call.dataset_name))
        /\ call.dataset_name = derived_table_name[1]
             => call.out.ret = << W_arctic, W_education >>

\* the ids of the features a result hands out
MatchedIds(ret) ==
    IF ret.features_geojson = None THEN {}
    ELSE { ret.features_geojson.features[i].fid :
             i \in DOMAIN ret.features_geojson.features }

\* C9: for a fixed target layer, buffer layer and unit, a larger distance
\* never gives a smaller count, and every feature matched at the smaller
\* distance is matched at the larger one.
C9_BufferMonotone ==
    (call.op = "perform_buffer_analysis" /\ call.out.ok) =>
        \A d2 \in Distances :
            d2 >= call.distance =>
                LET r2 == perform_buffer_analysis(dbExists, layers, call.target_layer,
                                                  call.buffer_layer, d2, call.unit)
                IN  /\ r2.ok
                    /\ call.out.ret.count <= r2.ret.count
                    /\ MatchedIds(call.out.ret) \subseteq MatchedIds(r2.ret)

C9_Witness ==
    /\ call.op = "perform_buffer_analysis"
    /\ call.out.ok
    /\ call.out.ret.count >= 1
    /\ \E d2 \in Distances :
         /\ d2 > call.distance
         /\ perform_buffer_analysis(dbExists, layers, call.target_layer,
                                    call.buffer_layer, d2, call.unit).ret.count
              > call.out.ret.count

\* the gap between two stored features, in geographic units
Gap(t, b) ==
    IF t.lo > b.hi THEN t.lo - b.hi
    ELSE IF b.lo > t.hi THEN b.lo - t.hi
    ELSE 0

\* the indices of the target features within the distance (fixed point
\* metres) of some buffer feature
WithinDistance(target, buffer_l, dm) ==
    { i \in DOMAIN target :
        /\ dm > 0
        /\ \E j \in DOMAIN buffer_l :
             Gap(target[i], buffer_l[j]) * MetersPerUnit * FixedPoint <= dm }

\* C10: in a successful result count is the number of target features that
\* intersect the dissolved buffer; the matched features are None exactly
\* when count is 0 and are count features otherwise; the buffer region is
\* always present; params are the four inputs unchanged.
C10_ResultShape ==
    (call.op = "perform_buffer_analysis" /\ call.out.ok) =>
        LET ret == call.out.ret
            target == read_layer(layers, call.target_layer).feats
            buffer_l == read_layer(layers, call.buffer_layer).feats
            hit == WithinDistance(target, buffer_l,
                                  call.distance * units_to_meters[call.unit])
        IN  /\ ret.count = Cardinality(hit)
            /\ (ret.features_geojson = None) <=> (ret.count = 0)
            /\ ret.count > 0 =>
                 /\ Len(ret.features_geojson.features) = ret.count
                 /\ Range(ret.features_geojson.features) = { target[i] : i \in hit }
            /\ ret.buffer_geojson # None
            /\ ret.buffer_geojson.type = "FeatureCollection"
            /\ Len(ret.buffer_geojson.features) = 1
            /\ ret.params = [target_layer |-> call.target_layer,
                             buffer_layer |-> call.buffer_layer,
                             distance |-> call.distance,
                             unit |-> call.unit]

C10_Witness ==
    /\ call.op = "perform_buffer_analysis"
    /\ call.out.ok
    /\ call.distance > 0
    /\ call.out.ret.count = 0
    /\ call.out.ret.features_geojson = None
    /\ call.out.ret.buffer_geojson # None
    /\ call.out.ret.buffer_geojson.features[1] # {}

---------------------------------------------------------------------------
(* C11: the empty-layer error of perform_buffer_analysis *)

\* the layer is stored and holds zero features
HoldsNoFeatures(layer_name) ==
    /\ dbExists
    /\ layer_name \in listlayers(layers)
    /\ Len(read_layer(layers, layer_name).feats) = 0

\* the call failed with the empty-layer error that names the layer, and
\* produced no result
FailedAsEmpty(layer_name) ==
    /\ ~call.out.ok
    /\ call.out.exc = "ValueError"
    /\ call.out.msg = [kind |-> "EmptyLayer", layer |-> layer_name]
    /\ "ret" \notin DOMAIN call.out

\* C11 as stated: perform_buffer_analysis fails with the empty-layer error
\* naming the layer whenever the target layer or the buffer layer is stored
\* with zero features, whatever the other layer is.
C11_EmptyLayerFails ==
    (/\ call.op = "perform_buffer_analysis"
     /\ HoldsNoFeatures(call.target_layer) \/ HoldsNoFeatures(call.buffer_layer)) =>
        \/ HoldsNoFeatures(call.target_layer) /\ FailedAsEmpty(call.target_layer)
        \/ HoldsNoFeatures(call.buffer_layer) /\ FailedAsEmpty(call.buffer_layer)

\* C11 amended: when both layers are stored and one of them holds zero
\* features, perform_buffer_analysis fails with the empty-layer error, for
\* any distance and unit; the error names the target layer when that one is
\* empty and the buffer layer otherwise, and no result is produced.
C11_EmptyLayerFailsWhenBothStored ==
    (/\ call.op = "perform_buffer_analysis"
     /\ dbExists
     /\ { call.target_layer, call.buffer_layer } \subseteq listlayers(layers)
     /\ HoldsNoFeatures(call.target_layer) \/ HoldsNoFeatures(call.buffer_layer)) =>
        FailedAsEmpty(IF HoldsNoFeatures(call.target_layer)
                      THEN call.target_layer ELSE call.buffer_layer)

C11_Witness ==
    /\ call.op = "perform_buffer_analysis"
    /\ dbExists
    /\ call.target_layer \in listlayers(layers)
    /\ ~HoldsNoFeatures(call.target_layer)
    /\ HoldsNoFeatures(call.buffer_layer)
    /\ call.unit \notin DOMAIN units_to_meters
    /\ FailedAsEmpty(call.buffer_layer)

---------------------------------------------------------------------------
(* C12: error propagation at the chat endpoint *)

\* the failures caused by user input
UserInputErrors == { "LayerNotFound", "DatasetsNotFound", "UnsupportedUnit", "EmptyLayer" }

\* process_user_query raised an error caused by user input
RaisedUserInputError ==
    /\ call.out.raised # None
    /\ call.out.raised.msg # None
    /\ call.out.raised.msg.kind \in UserInputErrors

\* C12: at the chat endpoint a failure caused by user input reaches the end
\* user as its own message, and a failure caused by the state of the system
\* (the store was never initialised, any other exception) is replaced by the
\* one generic message; get_layer_data on a store that was never loaded
\* fails with an error that is not layer-not-found.
C12_ErrorPropagation ==
    /\ call.op = "chat" =>
          LET m == call.out.ret.message
          IN  /\ RaisedUserInputError => m = call.out.raised.msg
              /\ (call.out.raised # None /\ ~RaisedUserInputError) => m = GenericMessage
              /\ ~dbExists => m = GenericMessage
              /\ call.out.ret.message # GenericMessage =>
                    call.out.ret.message.kind
                        \in UserInputErrors \cup { "Text", "Summary", "Found" }
    /\ (call.op = "get_layer_data" /\ ~dbExists) =>
          /\ ~call.out.ok
          /\ call.out.msg.kind # "LayerNotFound"

\* what chat does: the message of a ValueError is shown as it is, whatever
\* raised it, and every other exception is replaced by the generic message;
\* a failure always leaves features, buffer, count and params null.
C12_ValueErrorShownOthersGeneric ==
    (call.op = "chat" /\ call.out.raised # None) =>
        /\ call.out.ret.message =
              (IF call.out.raised.exc = "ValueError"
               THEN call.out.raised.msg ELSE GenericMessage)
        /\ call.out.ret = ChatResponse(call.out.ret.message, None, None, None, None)

\* the store was never initialised and chat answers with the message of the
\* ValueError that extract_user_intent raised for the empty catalog
C12_StoreErrorShown ==
    /\ call.op = "chat"
    /\ ~dbExists
    /\ call.out.raised = [exc |-> "ValueError", msg |-> [kind |-> "NoDatasets"]]
    /\ call.out.ret.message = [kind |-> "NoDatasets"]

---------------------------------------------------------------------------
(* C13: query execution is read-only on the layer store *)

\* the operations that load source files into the store
LoadOps == { "load_shapefile", "load_shapefiles", "init_database" }

\* C13: a step that is not one of the load operations (a catalog request, a
\* buffer analysis or any other query, successful or failing) leaves the
\* store as it was: the same persisted layer names, and for every layer the
\* same features; only the load operations modify the store.
C13_OnlyLoadsModifyStore ==
    [][call'.op \notin LoadOps =>
         /\ dbExists' = dbExists
         /\ listlayers(layers') = listlayers(layers)
         /\ \A n \in listlayers(layers) :
               read_layer(layers', n).feats = read_layer(layers, n).feats
         /\ layers' = layers]_vars

\* a buffer analysis has run and succeeded on a store of several layers
C13_Witness ==
    /\ call.op = "perform_buffer_analysis"
    /\ call.out.ok
    /\ call.out.ret.count > 0
    /\ Cardinality(listlayers(layers)) >= 2

---------------------------------------------------------------------------
(* C14: validation gates execution in process_user_query *)

AnalysisInvoked == "perform_buffer_analysis" \in Range(call.out.calls)

SummaryInvoked == "generate_results_interpretation" \in Range(call.out.calls)

\* the language model was asked (the catalog is not empty) and reported no
\* spatial intent
NoSpatialIntent ==
    /\ DOMAIN get_dataset_catalog(dbExists, layers) # {}
    /\ call.response.function_call = None

\* the language model was asked and validation found a layer name that is
\* no key of the catalog
UnresolvedLayer ==
    /\ DOMAIN get_dataset_catalog(dbExists, layers) # {}
    /\ call.response.function_call # None
    /\ ~ ({ call.response.function_call.args.target_layer,
            call.response.function_call.args.buffer_layer }
              \subseteq DOMAIN get_dataset_catalog(dbExists, layers))

\* C14: in process_user_query the buffer analysis is invoked only when both
\* layer names are keys of the catalog, and it precedes the summarisation;
\* when the language model reports no spatial intent or validation finds an
\* unresolved layer, neither the buffer analysis nor the summarisation is
\* invoked and the response carries the message with features, buffer,
\* count and params all None.
C14_ValidationGatesExecution ==
    call.op = "process_user_query" =>
        /\ AnalysisInvoked =>
              /\ call.response.function_call # None
              /\ { call.response.function_call.args.target_layer,
                   call.response.function_call.args.buffer_layer }
                     \subseteq DOMAIN get_dataset_catalog(dbExists, layers)
        /\ SummaryInvoked =>
              call.out.calls = << "perform_buffer_analysis",
                                  "generate_results_interpretation" >>
        /\ (NoSpatialIntent \/ UnresolvedLayer) =>
              /\ ~AnalysisInvoked
              /\ ~SummaryInvoked
              /\ call.out.ok
              /\ DOMAIN call.out.ret =
                    { "message", "features_geojson", "buffer_geojson", "count", "params" }
              /\ call.out.ret.message.kind =
                    (IF NoSpatialIntent THEN "Text" ELSE "DatasetsNotFound")
              /\ call.out.ret.features_geojson = None
              /\ call.out.ret.buffer_geojson = None
              /\ call.out.ret.count = None
              /\ call.out.ret.params = None

\* validation found the buffer layer unresolved on a store that has layers,
\* and the response is the message alone
C14_Witness ==
    /\ call.op = "process_user_query"
    /\ UnresolvedLayer
    /\ call.response.function_call.args.target_layer
          \in DOMAIN get_dataset_catalog(dbExists, layers)
    /\ call.out.ok
    /\ call.out.calls = << >>
    /\ call.out.ret.message.kind = "DatasetsNotFound"
    /\ call.out.ret.count = None

===========================================================================
